---- MODULE Spec2Model ----
(***************************************************************************)
(* CopyQ item plugin core: src/item/itemwidget.cpp.                        *)
(*                                                                         *)
(* The module holds one state machine per component of the item core.      *)
(* Every component has its own variables, its own initial condition and    *)
(* its own next-state relation; the components do not share state, so each *)
(* is explored under its own specification:                                *)
(*   SpecMouse      ItemWidget::filterMouseEvents on a rich-text surface   *)
(*   SpecEditor     ItemWidget::setEditorData/setModelData/hasChanges      *)
(*   SpecHighlight  ItemWidget::setHighlight                               *)
(*   SpecPaste      TextEdit::insertFromMimeData                           *)
(*   SpecSize       ItemWidget::updateSize                                 *)
(*   SpecChain      ItemLoaderInterface::transformSaver                    *)
(*   SpecScript     ItemScriptable::call/eval/currentArguments             *)
(*   SpecCurrent    ItemWidget::setCurrent next to the other operations    *)
(* and, of src/app/app.cpp:                                                *)
(*   SpecApp        App::exec/exit/wasClosed                               *)
(***************************************************************************)
EXTENDS Integers, Sequences, FiniteSets, TLC

VARIABLES
    edit,       \* the QTextEdit handed to filterMouseEvents
    gate,       \* the last filterMouseEvents call: its event and its effects
    item,       \* the model's data at the edited index: content type -> payload
    editor,     \* the widget handed to setEditorData/setModelData/hasChanges
    session,    \* the edit session: what was loaded, what the last call wrote
    m_re,       \* ItemWidget::m_re, the pattern last highlighted
    highlights, \* the last setHighlight calls and whether highlight() ran
    pasted,     \* the last paste/drop into the TextEdit and what it inserted
    widget,     \* geometry of ItemWidget::widget()
    sizing,     \* the last updateSize call and the calls it made on the widget
    chain,      \* a saver handed through the transformSaver of a loader chain
    bridge,     \* an ItemScriptable call into the scripting engine
    attributes, \* the Qt::WidgetAttribute set of ItemWidget::widget()
    current,    \* the last ItemWidget::setCurrent call
    app         \* the App object: m_closed, m_exitCode and its QCoreApplication

mouseVars == <<edit, gate>>

editorVars == <<item, editor, session>>

highlightVars == <<m_re, highlights>>

pasteVars == <<pasted>>

sizeVars == <<widget, sizing>>

chainVars == <<chain>>

scriptVars == <<bridge>>

currentVars == <<attributes, current>>

appVars == <<app>>

vars == <<edit, gate, item, editor, session, m_re, highlights, pasted,
          widget, sizing, chain, bridge, attributes, current, app>>

\* The variables outside each component.
notMouseVars ==
    <<editorVars, highlightVars, pasteVars, sizeVars, chainVars,
     scriptVars, currentVars, appVars>>

notEditorVars ==
    <<mouseVars, highlightVars, pasteVars, sizeVars, chainVars,
     scriptVars, currentVars, appVars>>

notHighlightVars ==
    <<mouseVars, editorVars, pasteVars, sizeVars, chainVars,
     scriptVars, currentVars, appVars>>

notPasteVars ==
    <<mouseVars, editorVars, highlightVars, sizeVars, chainVars,
     scriptVars, currentVars, appVars>>

notSizeVars ==
    <<mouseVars, editorVars, highlightVars, pasteVars, chainVars,
     scriptVars, currentVars, appVars>>

notChainVars ==
    <<mouseVars, editorVars, highlightVars, pasteVars, sizeVars,
     scriptVars, currentVars, appVars>>

notScriptVars ==
    <<mouseVars, editorVars, highlightVars, pasteVars, sizeVars, chainVars,
     currentVars, appVars>>

notCurrentVars ==
    <<mouseVars, editorVars, highlightVars, pasteVars, sizeVars, chainVars,
     scriptVars, appVars>>

notAppVars ==
    <<mouseVars, editorVars, highlightVars, pasteVars, sizeVars, chainVars,
     scriptVars, currentVars>>

\* The value of a variable whose component a specification leaves out.
Idle == "idle"

MouseIdle == edit = Idle /\ gate = Idle

EditorIdle == item = Idle /\ editor = Idle /\ session = Idle

HighlightIdle == m_re = Idle /\ highlights = Idle

PasteIdle == pasted = Idle

SizeIdle == widget = Idle /\ sizing = Idle

ChainIdle == chain = Idle

ScriptIdle == bridge = Idle

CurrentIdle == attributes = Idle /\ current = Idle

AppIdle == app = Idle

(***************************************************************************)
(* Bounds of the model.                                                    *)
(***************************************************************************)
\* Document positions of the surface are 0..MaxPos.
MaxPos == 1

Positions == 0..MaxPos

\* Texts of items and editors have at most MaxLen characters.
MaxLen == 2

\* Character formats a user can add to a document are 1..MaxFormats.
MaxFormats == 2

\* Widths and heights passed to and computed for updateSize are at most MaxDim.
MaxDim == 2

\* A loader chain has at most MaxLoaders loaders.
MaxLoaders == 4

\* Saver objects are 1..MaxSavers.
MaxSavers == 3

(***************************************************************************)
(* Toolkit vocabulary used by filterMouseEvents.                           *)
(***************************************************************************)
\* Qt::TextInteractionFlag values a surface may carry.
TextInteractionFlags ==
    {"TextSelectableByMouse", "LinksAccessibleByMouse", "TextSelectableByKeyboard"}

\* The two flags the gate sets and clears (lines 243-247).
GatedFlags == {"TextSelectableByMouse", "LinksAccessibleByMouse"}

KeyboardModifiers == {"ShiftModifier", "ControlModifier"}

MouseButtons == {"LeftButton", "RightButton"}

\* QEvent types that are QMouseEvents.
MouseEventTypes ==
    {"MouseButtonPress", "MouseButtonDblClick", "MouseMove", "MouseButtonRelease"}

\* QEvent types that carry no mouse data: Enter, and Leave as a type the
\* switch does not name (the default branch).
PlainEventTypes == {"Enter", "Leave"}

\* Hyperlink targets a document position may carry; "" is plain text.
Urls == {"http://a"}

NoAnchor == ""

\* The events a caller can pass.  `accepted` is the QEvent accept flag; the
\* events enter with the flag clear, the one case in which accept() (line
\* 261) changes it.
Events ==
    [type : MouseEventTypes, modifiers : SUBSET KeyboardModifiers,
     button : MouseButtons, pos : Positions, accepted : {FALSE}]
    \cup
    [type : PlainEventTypes, modifiers : {{}},
     button : {"LeftButton"}, pos : {0}, accepted : {FALSE}]

\* A text cursor: the selection spans anchor..position.
TextCursors == [position : Positions, anchor : Positions]

HasSelection(cursor) == cursor.position # cursor.anchor

\* QTextEdit::cursorForPosition: a cursor at the position, nothing selected.
CursorForPosition(p) == [position |-> p, anchor |-> p]

\* QTextEdit::anchorAt: the link target under the position, or empty.
AnchorAt(ed, p) == ed.anchors[p]

(***************************************************************************)
(* canMouseInteract (lines 42-45).                                         *)
(***************************************************************************)
\* Variant: every event may interact.
CanMouseInteractAlways(e) == TRUE

CanMouseInteract(e) == "ShiftModifier" \in e.modifiers

(***************************************************************************)
(* ItemWidget::filterMouseEvents (lines 193-271), in the order of the code.*)
(***************************************************************************)
\* The switch's early returns (lines 200-203, 237-238).
\* Variant: the default case goes on to the update of the flags.
ReturnsFromSwitchNever(type) == FALSE

ReturnsFromSwitch(type) == type \notin MouseEventTypes

\* allowMouseInteraction after the switch (lines 197-235).
AllowMouseInteraction(e) ==
    CASE e.type \in {"MouseButtonPress", "MouseButtonDblClick", "MouseMove"}
            -> CanMouseInteract(e)
      [] e.type = "MouseButtonRelease" -> FALSE
      [] OTHER -> TRUE

\* Lines 209-212: the caret follows a modified left-button press.
\* Variant: any button moves the caret.
MovesCaretAnyButton(e) ==
    /\ e.type \in {"MouseButtonPress", "MouseButtonDblClick"}
    /\ CanMouseInteract(e)

MovesCaret(e) ==
    /\ e.type \in {"MouseButtonPress", "MouseButtonDblClick"}
    /\ CanMouseInteract(e)
    /\ e.button = "LeftButton"

\* Lines 229-230: copy on a modified release over a selection.
\* Variant: the modifier is not asked for.
CopiesSelectionAnyRelease(ed, e) ==
    /\ e.type = "MouseButtonRelease"
    /\ HasSelection(ed.textCursor)

CopiesSelection(ed, e) ==
    /\ e.type = "MouseButtonRelease"
    /\ CanMouseInteract(e)
    /\ HasSelection(ed.textCursor)

\* Lines 241-249: the two gated flags follow allowMouseInteraction.
\* Variant: the flags are never cleared.
GatedTextInteractionFlagsKeep(flags, allow) ==
    IF allow THEN flags \cup GatedFlags ELSE flags

GatedTextInteractionFlags(flags, allow) ==
    IF allow THEN flags \cup GatedFlags ELSE flags \ GatedFlags

\* Lines 251-268: the viewport cursor after a Press or a Move.
ViewportCursor(ed, e, allow) ==
    IF e.type \in {"MouseButtonPress", "MouseMove"}
    THEN IF allow
         THEN IF AnchorAt(ed, e.pos) = NoAnchor
              THEN "IBeamCursor" ELSE "PointingHandCursor"
         ELSE "ArrowCursor"
    ELSE ed.cursor

\* Lines 251-263: the one path that opens a link and returns true.
\* Variants: the anchor test inverted; a double click taken for a press.
OpensLinkOnPlainText(type, allow, anchor) ==
    /\ type = "MouseButtonPress"
    /\ allow
    /\ anchor = NoAnchor

OpensLinkOnDblClick(type, allow, anchor) ==
    /\ type \in {"MouseButtonPress", "MouseButtonDblClick"}
    /\ allow
    /\ anchor # NoAnchor

OpensLink(type, allow, anchor) ==
    /\ type = "MouseButtonPress"
    /\ allow
    /\ anchor # NoAnchor

\* The whole call: the surface and the event afterwards, the value returned,
\* the URLs handed to QDesktopServices::openUrl and the selections (from, to)
\* that QTextEdit::copy() put on the clipboard.
FilterMouseEvents(ed, e) ==
    IF e.type = "Enter"
    THEN [edit |-> [ed EXCEPT !.mouseTracking = TRUE, !.cursor = "ArrowCursor"],
          event |-> e, ret |-> FALSE,
          opened |-> <<>>, copied |-> <<>>, caretSet |-> FALSE]
    ELSE IF ReturnsFromSwitch(e.type)
    THEN [edit |-> ed, event |-> e, ret |-> FALSE,
          opened |-> <<>>, copied |-> <<>>, caretSet |-> FALSE]
    ELSE
        LET allow  == AllowMouseInteraction(e)
            caret  == MovesCaret(e)
            copy   == CopiesSelection(ed, e)
            cursor == IF caret THEN CursorForPosition(e.pos) ELSE ed.textCursor
            anchor == AnchorAt(ed, e.pos)
            opens  == OpensLink(e.type, allow, anchor)
            lo     == IF cursor.anchor < cursor.position
                      THEN cursor.anchor ELSE cursor.position
            hi     == IF cursor.anchor < cursor.position
                      THEN cursor.position ELSE cursor.anchor
        IN  [edit |-> [ed EXCEPT
                         !.textCursor = cursor,
                         !.flags = GatedTextInteractionFlags(ed.flags, allow),
                         !.cursor = ViewportCursor(ed, e, allow)],
             event |-> IF opens THEN [e EXCEPT !.accepted = TRUE] ELSE e,
             ret |-> opens,
             opened |-> IF opens THEN <<anchor>> ELSE <<>>,
             copied |-> IF copy THEN << <<lo, hi>> >> ELSE <<>>,
             caretSet |-> caret]

(***************************************************************************)
(* The mouse gate as a state machine.                                      *)
(***************************************************************************)
NoEvent ==
    [type |-> "None", modifiers |-> {}, button |-> "LeftButton",
     pos |-> 0, accepted |-> FALSE]

\* A surface as the list view hands it over: any interaction flags, any
\* document, the caret anywhere; hover tracking off and the default cursor.
InitMouse ==
    /\ edit \in [flags : SUBSET TextInteractionFlags,
                 mouseTracking : {FALSE},
                 cursor : {"ArrowCursor"},
                 textCursor : {CursorForPosition(p) : p \in Positions},
                 anchors : [Positions -> Urls \cup {NoAnchor}]]
    /\ gate = [event |-> NoEvent, ret |-> FALSE, opened |-> <<>>,
               copied |-> <<>>, caretSet |-> FALSE, hadSelection |-> FALSE]
    /\ EditorIdle /\ HighlightIdle /\ PasteIdle /\ SizeIdle /\ ChainIdle
    /\ ScriptIdle /\ CurrentIdle /\ AppIdle

\* The list view's event filter passes one event of the given ones through
\* the gate.
MouseEventOf(events) ==
    \E e \in events :
        LET r == FilterMouseEvents(edit, e) IN
        /\ edit' = r.edit
        /\ gate' = [event |-> r.event, ret |-> r.ret, opened |-> r.opened,
                    copied |-> r.copied, caretSet |-> r.caretSet,
                    hadSelection |-> HasSelection(edit.textCursor)]
        /\ UNCHANGED notMouseVars

MouseEvent == MouseEventOf(Events)

\* The toolkit's own handling of a drag the gate let through: with
\* TextSelectableByMouse set, the selection is extended to the pointer.
DragSelect ==
    /\ "TextSelectableByMouse" \in edit.flags
    /\ gate.ret = FALSE
    /\ \E p \in Positions :
           edit' = [edit EXCEPT !.textCursor.position = p]
    /\ UNCHANGED <<gate, notMouseVars>>

NextMouse == MouseEvent \/ DragSelect

SpecMouse == InitMouse /\ [][NextMouse]_vars

(***************************************************************************)
(* Texts.  A QString is a sequence of code points, a QByteArray a sequence *)
(* of bytes.  The characters of the model: 'a' (97), carriage return (13), *)
(* line feed (10), space (32) and no-break space U+00A0 (160).             *)
(***************************************************************************)
RECURSIVE Utf8(_)
\* QString::toUtf8 (lines 153, 155): one byte below U+0080, two below U+0800.
Utf8(text) ==
    IF text = <<>> THEN <<>>
    ELSE LET c == Head(text) IN
         (IF c < 128 THEN <<c>> ELSE <<192 + (c \div 64), 128 + (c % 64)>>)
             \o Utf8(Tail(text))

RECURSIVE FromUtf8(_)
\* QString::fromUtf8, by which the model answers Qt::EditRole (line 137).
FromUtf8(bytes) ==
    IF bytes = <<>> THEN <<>>
    ELSE IF Head(bytes) < 128
    THEN <<Head(bytes)>> \o FromUtf8(Tail(bytes))
    ELSE <<(Head(bytes) - 192) * 64 + (Head(Tail(bytes)) - 128)>>
             \o FromUtf8(Tail(Tail(bytes)))

\* Sequences over S of length at most n.
SeqsUpTo(S, n) == UNION {[1..k -> S] : k \in 0..n}

\* Characters of the texts items start with.
ItemChars == {97, 13, 160}

\* Characters a user types into the editor.
TypedChars == {97, 160}

(***************************************************************************)
(* The rich-text document of a QTextEdit.                                  *)
(***************************************************************************)
\* The formats every document holds: root frame, block and character format.
DefaultFormats == {<<"frame", 0>>, <<"block", 0>>, <<"char", 0>>}

\* Formats that rich content adds.
ExtraFormats == {<<"char", k>> : k \in 1..MaxFormats}

\* QTextEdit::setPlainText (line 138): every carriage return starts a new
\* block, as a line feed does.
RECURSIVE PlainTextBlocks(_)
PlainTextBlocks(text) ==
    IF text = <<>> THEN <<>>
    ELSE IF Head(text) = 13 /\ Len(text) > 1 /\ text[2] = 10
    THEN <<10>> \o PlainTextBlocks(Tail(Tail(text)))
    ELSE <<IF Head(text) = 13 THEN 10 ELSE Head(text)>>
             \o PlainTextBlocks(Tail(text))

\* QTextEdit::toPlainText (line 153): a no-break space comes out as a space.
ToPlainText(doc) ==
    [i \in 1..Len(doc.text) |-> IF doc.text[i] = 160 THEN 32 ELSE doc.text[i]]

\* QTextEdit::toHtml (line 155): markup of the text and its formats.
ToHtml(doc) == [text |-> doc.text, formats |-> doc.formats \ DefaultFormats]

\* QTextDocument::allFormats (line 49).
AllFormats(doc) == doc.formats

\* The threshold of containsRichText (line 49).
RichTextThreshold == 3

\* containsRichText (lines 47-50).
\* Variant: the threshold itself counts as rich.
ContainsRichTextAtThreshold(doc) == Cardinality(AllFormats(doc)) >= RichTextThreshold

ContainsRichText(doc) == Cardinality(AllFormats(doc)) > RichTextThreshold

(***************************************************************************)
(* The item model behind a QModelIndex: a mapping from content type to     *)
(* payload, with a scalar write that replaces the content by a text and a  *)
(* write in updateData mode that merges a mapping into it.                 *)
(***************************************************************************)
MimeText == "text/plain"

MimeHtml == "text/html"

\* index.data(contentType::hasHtml) (line 133).
HasHtml(it) == MimeHtml \in DOMAIN it

\* index.data(contentType::html) (line 134).
HtmlOf(it) == it[MimeHtml]

\* index.data(Qt::EditRole) (line 137).
EditRoleText(it) == IF MimeText \in DOMAIN it THEN FromUtf8(it[MimeText]) ELSE <<>>

\* model->setData(index, text): the content becomes the text.
SetDataText(it, text) == [k \in {MimeText} |-> Utf8(text)]

\* model->setData(index, data, contentType::updateData): data is merged in.
SetDataUpdate(it, data) ==
    [k \in DOMAIN it \cup DOMAIN data |-> IF k \in DOMAIN data THEN data[k] ELSE it[k]]

\* One write as the model receives it.
ApplyWrite(it, w) ==
    IF w.role = "EditRole" THEN SetDataText(it, w.value) ELSE SetDataUpdate(it, w.value)

RECURSIVE ApplyWrites(_, _)
ApplyWrites(it, ws) ==
    IF ws = <<>> THEN it ELSE ApplyWrites(ApplyWrite(it, Head(ws)), Tail(ws))

(***************************************************************************)
(* ItemWidget::createEditor, setEditorData, setModelData, hasChanges       *)
(* (lines 122-166).                                                        *)
(***************************************************************************)
\* What the callers may pass as editor: a QTextEdit, another widget, nullptr.
EditorKinds == {"QTextEdit", "QWidget", "nullptr"}

EmptyDocument == [text |-> <<>>, formats |-> DefaultFormats]

\* createEditor (lines 122-127): a new TextEdit without a frame.
CreateEditor ==
    [kind |-> "QTextEdit", frame |-> "NoFrame", doc |-> EmptyDocument,
     modified |-> FALSE, selectedAll |-> FALSE]

\* qobject_cast<QTextEdit *>(editor) != nullptr (lines 131, 147, 164).
\* Variant: every widget that is not null is taken for a text edit.
IsTextEditUnlessNull(ed) == ed.kind # "nullptr"

IsTextEdit(ed) == ed.kind = "QTextEdit"

\* The document setEditorData loads (lines 133-139).
\* Variant: the HTML of the item is ignored.
LoadedDocumentAlwaysPlain(it) ==
    [text |-> PlainTextBlocks(EditRoleText(it)), formats |-> DefaultFormats]

LoadedDocument(it) ==
    IF HasHtml(it)
    THEN [text |-> HtmlOf(it).text, formats |-> DefaultFormats \cup HtmlOf(it).formats]
    ELSE [text |-> PlainTextBlocks(EditRoleText(it)), formats |-> DefaultFormats]

\* setEditorData (lines 129-142).  Replacing the content may or may not
\* leave the document's change-tracking flag set: `modified` is the flag
\* afterwards.
SetEditorData(ed, it, modified) ==
    IF IsTextEdit(ed)
    THEN [ed EXCEPT !.doc = LoadedDocument(it), !.modified = modified,
                    !.selectedAll = TRUE]
    ELSE ed

\* The mapping setModelData builds (lines 152-155).
\* Variant: text/html is written for every document.
ModelDataAlwaysHtml(ed) ==
    (MimeText :> Utf8(ToPlainText(ed.doc))) @@ (MimeHtml :> ToHtml(ed.doc))

ModelData(ed) ==
    IF ContainsRichText(ed.doc)
    THEN (MimeText :> Utf8(ToPlainText(ed.doc))) @@ (MimeHtml :> ToHtml(ed.doc))
    ELSE (MimeText :> Utf8(ToPlainText(ed.doc)))

\* The writes of setModelData, in order (lines 150, 156).
\* Variant: the text is not cleared before the mapping is merged in.
ModelWritesWithoutClear(ed, index) ==
    IF IsTextEdit(ed)
    THEN << [index |-> index, role |-> "updateData", value |-> ModelData(ed)] >>
    ELSE <<>>

ModelWrites(ed, index) ==
    IF IsTextEdit(ed)
    THEN << [index |-> index, role |-> "EditRole", value |-> <<>>],
            [index |-> index, role |-> "updateData", value |-> ModelData(ed)] >>
    ELSE <<>>

\* The writes the row at the index receives.
WritesAt(ws, index) == SelectSeq(ws, LAMBDA w : w.index = index)

\* The editor after setModelData (line 158).
\* Variant: the change-tracking flag is left as it is.
CommittedKeepsModified(ed) == ed

Committed(ed) == IF IsTextEdit(ed) THEN [ed EXCEPT !.modified = FALSE] ELSE ed

\* hasChanges (lines 162-166).
HasChanges(ed) == IsTextEdit(ed) /\ ed.modified

(***************************************************************************)
(* The edit session as a state machine.                                    *)
(***************************************************************************)
\* Rich content an item can start with.
ItemHtmls == [text : {<<97>>}, formats : SUBSET ExtraFormats]

\* Items: plain text, or rich text with its plain rendering.
ItemDatas ==
    {(MimeText :> Utf8(t)) : t \in SeqsUpTo(ItemChars, MaxLen)}
    \cup {(MimeText :> Utf8(h.text)) @@ (MimeHtml :> h) : h \in ItemHtmls}

\* Rows of the model an edit session can be opened on.
Rows == {0, 1}

NoSession ==
    [index |-> 0, call |-> "none", loaded |-> <<>>, loadedHtml |-> FALSE,
     pristine |-> FALSE, writes |-> <<>>, changes |-> FALSE]

InitEditor ==
    /\ item \in ItemDatas
    /\ editor \in {[CreateEditor EXCEPT !.kind = k] : k \in EditorKinds}
    /\ session \in {[NoSession EXCEPT !.index = i] : i \in Rows}
    /\ MouseIdle /\ HighlightIdle /\ PasteIdle /\ SizeIdle /\ ChainIdle
    /\ ScriptIdle /\ CurrentIdle /\ AppIdle

\* The view opens the editor on the index.
EditorLoad ==
    \E modified \in BOOLEAN :
        /\ editor' = SetEditorData(editor, item, modified)
        /\ session' = [index |-> session.index,
                       call |-> "setEditorData", loaded |-> EditRoleText(item),
                       loadedHtml |-> HasHtml(item), pristine |-> TRUE,
                       writes |-> <<>>, changes |-> FALSE]
        /\ UNCHANGED <<item, notEditorVars>>

\* The user types a character at the end of the text.
EditorType ==
    /\ IsTextEdit(editor)
    /\ Len(editor.doc.text) < MaxLen
    /\ \E c \in TypedChars :
           editor' = [editor EXCEPT !.doc.text = Append(@, c), !.modified = TRUE,
                                    !.selectedAll = FALSE]
    /\ session' = [session EXCEPT !.call = "edit", !.pristine = FALSE, !.writes = <<>>]
    /\ UNCHANGED <<item, notEditorVars>>

\* The user gives part of the text another character format.
EditorFormat ==
    /\ IsTextEdit(editor)
    /\ editor.doc.text # <<>>
    /\ \E f \in ExtraFormats \ editor.doc.formats :
           editor' = [editor EXCEPT !.doc.formats = @ \cup {f}, !.modified = TRUE]
    /\ session' = [session EXCEPT !.call = "edit", !.pristine = FALSE, !.writes = <<>>]
    /\ UNCHANGED <<item, notEditorVars>>

\* The view commits the editor to the index.
EditorCommit ==
    /\ item' = ApplyWrites(item, WritesAt(ModelWrites(editor, session.index),
                                          session.index))
    /\ editor' = Committed(editor)
    /\ session' = [session EXCEPT !.call = "setModelData",
                                  !.writes = ModelWrites(editor, session.index)]
    /\ UNCHANGED notEditorVars

\* The view asks whether the editor has changes to commit; `changes` is
\* the answer.
EditorHasChanges ==
    /\ session' = [session EXCEPT !.call = "hasChanges", !.writes = <<>>,
                                  !.changes = HasChanges(editor)]
    /\ UNCHANGED <<item, editor, notEditorVars>>

NextEditor ==
    EditorLoad \/ EditorType \/ EditorFormat \/ EditorCommit \/ EditorHasChanges

SpecEditor == InitEditor /\ [][NextEditor]_vars

(***************************************************************************)
(* Properties of the mouse gate.  `gate` holds the event of the last call  *)
(* and what the call did; `edit` is the surface as the call left it.       *)
(***************************************************************************)
Shift(e) == "ShiftModifier" \in e.modifiers

OverLink(e) == AnchorAt(edit, e.pos) # NoAnchor

\* C1: a Press without the interaction modifier (Shift) returns "not
\* handled", leaves text-selection-by-mouse and link-accessibility-by-mouse
\* disabled and opens no link, whatever the flags, the button and the
\* position (a hyperlink included) were.
C1_UnmodifiedPress ==
    (gate.event.type = "MouseButtonPress" /\ ~Shift(gate.event))
        => /\ gate.ret = FALSE
           /\ edit.flags \cap GatedFlags = {}
           /\ gate.opened = <<>>

\* An unmodified (Control only) press over a hyperlink has been filtered.
C1_Witness ==
    /\ gate.event.type = "MouseButtonPress"
    /\ gate.event.modifiers = {"ControlModifier"}
    /\ OverLink(gate.event)
    /\ gate.event.button = "RightButton"

\* C2: a Press with Shift held over a hyperlink anchor returns "handled",
\* marks the event accepted and opens that anchor's URL exactly once.
C2_ModifiedLinkPress ==
    (gate.event.type = "MouseButtonPress" /\ Shift(gate.event) /\ OverLink(gate.event))
        => /\ gate.ret = TRUE
           /\ gate.event.accepted
           /\ gate.opened = <<AnchorAt(edit, gate.event.pos)>>

\* A Shift press over a hyperlink has been filtered.
C2_Witness ==
    /\ gate.event.type = "MouseButtonPress"
    /\ Shift(gate.event)
    /\ OverLink(gate.event)

\* C3: every event other than a Press with Shift over a hyperlink anchor
\* returns false and opens no link.
C3_OnlyHandledPath ==
    (/\ gate.event.type # "None"
     /\ ~(gate.event.type = "MouseButtonPress" /\ Shift(gate.event) /\ OverLink(gate.event)))
        => /\ gate.ret = FALSE
           /\ gate.opened = <<>>

\* A Shift double click over a hyperlink has been filtered.
C3_Witness ==
    /\ gate.event.type = "MouseButtonDblClick"
    /\ Shift(gate.event)
    /\ OverLink(gate.event)

\* C4: a Release with Shift held while the text cursor has a selection makes
\* exactly one copy to the clipboard and leaves both gated flags disabled; a
\* Release without Shift or without a selection copies nothing.
C4_ReleaseCopies ==
    gate.event.type = "MouseButtonRelease"
        => IF Shift(gate.event) /\ gate.hadSelection
           THEN /\ Len(gate.copied) = 1
                /\ edit.flags \cap GatedFlags = {}
           ELSE gate.copied = <<>>

\* A Shift release over a selection has been filtered.
C4_Witness ==
    /\ gate.event.type = "MouseButtonRelease"
    /\ Shift(gate.event)
    /\ gate.hadSelection

(***************************************************************************)
(* Properties of the mouse gate over several events.                       *)
(***************************************************************************)
GatedDisabled(ed) == ed.flags \cap GatedFlags = {}

GatedEnabled(ed) == GatedFlags \subseteq ed.flags

\* A Press, DoubleClick or Move with the interaction modifier held.
EnablingEvent(e) ==
    /\ e.type \in {"MouseButtonPress", "MouseButtonDblClick", "MouseMove"}
    /\ Shift(e)

\* C14: after a Release both gated flags are disabled; disabled flags stay
\* disabled over every step but the filtering of a Press, DoubleClick or
\* Move with Shift, and after such an event both flags are enabled.
C14_ReleaseDisablesUntilModified ==
    /\ [](gate.event.type = "MouseButtonRelease" => GatedDisabled(edit))
    /\ [](EnablingEvent(gate.event) => GatedEnabled(edit))
    /\ [][(GatedDisabled(edit) /\ ~GatedDisabled(edit'))
             => (EnablingEvent(gate'.event) /\ GatedEnabled(edit'))]_vars

\* A release has copied a selection, which was dragged while the flags were
\* enabled, and has left both flags disabled.
C14_Witness ==
    /\ gate.event.type = "MouseButtonRelease"
    /\ Len(gate.copied) = 1
    /\ GatedDisabled(edit)
    /\ edit.mouseTracking

\* A Press or DoubleClick with the interaction modifier held.
ModifiedPress(e) ==
    /\ e.type \in {"MouseButtonPress", "MouseButtonDblClick"}
    /\ Shift(e)

\* C17: the gate moves the caret to the position of the event exactly for a
\* Press or DoubleClick with Shift and the left button; a modified Press or
\* DoubleClick with another button enables the gated flags and leaves the
\* caret; every other event leaves the caret where it was.
C17_CaretPlacement ==
    /\ [](gate.event # NoEvent
             => (gate.caretSet
                     <=> (ModifiedPress(gate.event) /\ gate.event.button = "LeftButton")))
    /\ [](gate.caretSet => edit.textCursor.anchor = gate.event.pos)
    /\ []((ModifiedPress(gate.event) /\ gate.event.button # "LeftButton")
             => (GatedEnabled(edit) /\ ~gate.caretSet))
    /\ [][gate' # gate
             => edit'.textCursor =
                    IF gate'.caretSet THEN CursorForPosition(gate'.event.pos)
                    ELSE edit.textCursor]_vars

\* A modified left double click has put the caret behind the first
\* character.
C17_Witness ==
    /\ gate.event.type = "MouseButtonDblClick"
    /\ gate.event.button = "LeftButton"
    /\ gate.event.pos = 1
    /\ gate.caretSet
    /\ edit.textCursor = CursorForPosition(1)

\* C18: no step changes an interaction flag other than the two gated ones;
\* a call with Enter or with an unclassified event leaves every flag as it
\* was; and after a Press, DoubleClick, Move or Release the two gated flags
\* are both enabled or both disabled.
C18_GatedFlagsOnly ==
    /\ [][edit'.flags \ GatedFlags = edit.flags \ GatedFlags]_vars
    /\ [][gate'.event.type \notin MouseEventTypes => edit'.flags = edit.flags]_vars
    /\ [](gate.event.type \in MouseEventTypes
             => (GatedEnabled(edit) \/ GatedDisabled(edit)))

\* An unclassified event has passed a surface on which the ungated flag
\* and one of the gated flags are set.
C18_Witness ==
    /\ gate.event.type = "Leave"
    /\ edit.flags = {"TextSelectableByMouse", "TextSelectableByKeyboard"}

(***************************************************************************)
(* Properties of the edit session.  `session.loaded` is the plain text the *)
(* index held when setEditorData ran, `session.pristine` says that the     *)
(* editor was not modified since, `session.writes` are the writes of the   *)
(* last call.                                                              *)
(***************************************************************************)
\* setEditorData then setModelData on a text editor, nothing in between, for
\* an item without HTML.
PlainRoundTrip ==
    /\ session.call = "setModelData"
    /\ session.pristine
    /\ ~session.loadedHtml
    /\ IsTextEdit(editor)

\* C5 as claimed: for an item with plain text t and no HTML, setEditorData
\* followed by setModelData without modification leaves the item with
\* text/plain equal to t and without a text/html key.
C5_RoundTripAnyText ==
    PlainRoundTrip
        => /\ MimeText \in DOMAIN item
           /\ item[MimeText] = Utf8(session.loaded)
           /\ MimeHtml \notin DOMAIN item

\* Characters the surface's plain-text import and export leave as they are.
KeptByPlainText(c) == c \notin {13, 160}

\* C5 as amended: the round trip leaves text/plain equal to t and no
\* text/html key when t holds no carriage return and no no-break space.
C5_RoundTrip ==
    (PlainRoundTrip /\ \A i \in 1..Len(session.loaded) : KeptByPlainText(session.loaded[i]))
        => /\ MimeText \in DOMAIN item
           /\ item[MimeText] = Utf8(session.loaded)
           /\ MimeHtml \notin DOMAIN item

\* A non-empty text has made the round trip unchanged.
C5_Witness ==
    /\ PlainRoundTrip
    /\ session.loaded = <<97, 97>>
    /\ item[MimeText] = <<97, 97>>

\* C6: setModelData on a text editor always writes a text/plain entry, and
\* a text/html entry exactly when the document has more than 3 formats.
C6_RichTextThreshold ==
    (session.call = "setModelData" /\ IsTextEdit(editor))
        => /\ Len(session.writes) = 2
           /\ MimeText \in DOMAIN session.writes[2].value
           /\ (MimeHtml \in DOMAIN session.writes[2].value
                   <=> Cardinality(editor.doc.formats) > 3)

\* A document with one format more than the threshold has been committed.
C6_Witness ==
    /\ session.call = "setModelData"
    /\ IsTextEdit(editor)
    /\ Cardinality(editor.doc.formats) = 4
    /\ MimeHtml \in DOMAIN session.writes[2].value

\* The editor handed in is null or a widget that is no text edit.
UnsupportedEditor == editor.kind \in {"QWidget", "nullptr"}

\* C11: with an editor that is null or not a rich-text edit surface,
\* setEditorData and setModelData write nothing to the model and leave the
\* editor as it was, and hasChanges answers false.
C11_UnsupportedEditorIgnored ==
    UnsupportedEditor
        => /\ editor = [CreateEditor EXCEPT !.kind = editor.kind]
           /\ session.writes = <<>>
           /\ item \in ItemDatas
           /\ ~session.changes
           /\ ~HasChanges(editor)

\* setModelData has been called with a widget that is no text edit, after
\* a setEditorData with the same widget.
C11_Witness ==
    /\ editor.kind = "QWidget"
    /\ session.call = "setModelData"
    /\ session.pristine
    /\ session.writes = <<>>

\* C15: setModelData on a text editor makes exactly two writes, both at
\* the index it was given: first the empty string as the item's text, then
\* one merge write (updateData) of a mapping that holds text/plain and
\* nothing besides but text/html.
C15_WriteProtocol ==
    (session.call = "setModelData" /\ editor.kind = "QTextEdit")
        => /\ Len(session.writes) = 2
           /\ \A i \in 1..Len(session.writes) :
                  session.writes[i].index = session.index
           /\ session.writes[1].role = "EditRole"
           /\ session.writes[1].value = <<>>
           /\ session.writes[2].role = "updateData"
           /\ MimeText \in DOMAIN session.writes[2].value
           /\ DOMAIN session.writes[2].value \subseteq {MimeText, MimeHtml}

\* A rich document has been committed to the second row.
C15_Witness ==
    /\ session.call = "setModelData"
    /\ editor.kind = "QTextEdit"
    /\ session.index = 1
    /\ Len(session.writes) = 2
    /\ DOMAIN session.writes[2].value = {MimeText, MimeHtml}
    /\ item = session.writes[2].value

\* C16: hasChanges answers true exactly when the editor is a text edit
\* whose document has its change-tracking flag set; right after
\* setModelData the flag is clear; and a clear flag is set again only by a
\* step that modifies the document: an edit of the user or the replacement
\* of the content by setEditorData.
C16_ChangeTracking ==
    /\ [](session.call = "hasChanges"
              => (session.changes <=> (editor.kind = "QTextEdit" /\ editor.modified)))
    /\ []((session.call = "setModelData" /\ editor.kind = "QTextEdit")
              => ~editor.modified)
    /\ [][(~editor.modified /\ editor'.modified)
             => session'.call \in {"edit", "setEditorData"}]_vars

\* hasChanges has answered true for a document that was committed with a
\* no-break space (which only a commit turns into the space in the item)
\* and modified again.
C16_Witness ==
    /\ session.call = "hasChanges"
    /\ session.changes
    /\ \E i \in 1..Len(item[MimeText]) : item[MimeText][i] = 32

(***************************************************************************)
(* ItemWidget::setHighlight (lines 113-120) and the constructor's m_re     *)
(* (lines 94-96).                                                          *)
(***************************************************************************)
\* A QRegExp compares by value: its pattern text and its case sensitivity.
RegExps == [pattern : {"", "a", "b"}, cs : {"CaseSensitive", "CaseInsensitive"}]

\* QRegExp(): the empty pattern (line 95).
DefaultRegExp == [pattern |-> "", cs |-> "CaseSensitive"]

Fonts == {"normal", "bold"}

Palettes == {"light", "dark"}

\* m_re == re (line 116).
\* Variant: the argument, a different object, never compares equal.
SameRegExpByIdentity(stored, re) == FALSE

SameRegExp(stored, re) == stored = re

\* setHighlight (lines 113-120): the stored pattern afterwards and the
\* highlight() calls made.
SetHighlight(stored, re, font, palette) ==
    IF SameRegExp(stored, re)
    THEN [m_re |-> stored, rendered |-> <<>>]
    ELSE [m_re |-> re, rendered |-> <<[re |-> re, font |-> font, palette |-> palette]>>]

\* A new ItemWidget (lines 94-96); no setHighlight call yet.
InitHighlight ==
    /\ m_re = DefaultRegExp
    /\ highlights = <<>>
    /\ MouseIdle /\ EditorIdle /\ PasteIdle /\ SizeIdle /\ ChainIdle
    /\ ScriptIdle /\ CurrentIdle /\ AppIdle

\* The list view calls setHighlight.  `highlights` keeps the last two calls,
\* the latest first: the arguments, the pattern stored before the call and
\* the highlight() calls made.
HighlightCall ==
    \E re \in RegExps, font \in Fonts, palette \in Palettes :
        LET r == SetHighlight(m_re, re, font, palette)
            call == [re |-> re, font |-> font, palette |-> palette,
                     before |-> m_re, rendered |-> r.rendered]
        IN  /\ m_re' = r.m_re
            /\ highlights' = <<call>> \o SubSeq(highlights, 1, IF highlights = <<>> THEN 0 ELSE 1)
            /\ UNCHANGED notHighlightVars

NextHighlight == HighlightCall

SpecHighlight == InitHighlight /\ [][NextHighlight]_vars

\* C7: a setHighlight call re-renders (calls highlight) exactly when its
\* pattern differs by value from the pattern applied before the call, the
\* default empty pattern at first; the stored pattern is that of the most
\* recent call; two consecutive calls with an equal pattern, font and palette
\* re-render at most once.
C7_HighlightIdempotent ==
    /\ highlights = <<>> => m_re = [pattern |-> "", cs |-> "CaseSensitive"]
    /\ highlights # <<>> =>
           /\ m_re = highlights[1].re
           /\ Len(highlights[1].rendered) = (IF highlights[1].re # highlights[1].before THEN 1 ELSE 0)
           /\ highlights[1].rendered # <<>> =>
                  highlights[1].rendered[1] =
                      [re |-> highlights[1].re, font |-> highlights[1].font,
                       palette |-> highlights[1].palette]
    /\ Len(highlights) = 1 => highlights[1].before = [pattern |-> "", cs |-> "CaseSensitive"]
    /\ (/\ Len(highlights) = 2
        /\ highlights[1].re = highlights[2].re
        /\ highlights[1].font = highlights[2].font
        /\ highlights[1].palette = highlights[2].palette)
           => Len(highlights[1].rendered) + Len(highlights[2].rendered) <= 1

\* Two consecutive calls with an equal specification, the first of which
\* re-rendered.
C7_Witness ==
    /\ Len(highlights) = 2
    /\ highlights[1].re = highlights[2].re
    /\ highlights[1].font = highlights[2].font
    /\ highlights[1].palette = highlights[2].palette
    /\ Len(highlights[2].rendered) = 1

(***************************************************************************)
(* findImageFormat and TextEdit (lines 52-90).                             *)
(***************************************************************************)
\* The image formats of findImageFormat, in its order (line 54).
ImageFormats == <<"image/svg+xml", "image/png", "image/bmp", "image/jpeg", "image/gif">>

\* Content types a payload may offer: those five, an image type outside the
\* list and plain text.
PayloadFormats ==
    {ImageFormats[i] : i \in 1..Len(ImageFormats)} \cup {"image/tiff", "text/plain"}

\* The bytes a payload holds for a content type: the first bytes of a file
\* of that type.
SampleData(format) ==
    CASE format = "image/svg+xml" -> <<60>>
      [] format = "image/png" -> <<137, 80>>
      [] format = "image/bmp" -> <<66, 77>>
      [] format = "image/jpeg" -> <<255, 216, 255>>
      [] format = "image/gif" -> <<71, 73, 70, 56>>
      [] format = "image/tiff" -> <<73, 73>>
      [] OTHER -> <<97>>

\* QMimeData as the surface sees it: hasImage(), hasFormat(), data().
MimeDatas ==
    {[hasImage |-> img, data |-> [f \in fs |-> SampleData(f)]] :
        img \in BOOLEAN, fs \in SUBSET PayloadFormats}

\* QMimeData::hasFormat (line 56).
HasFormat(source, format) == format \in DOMAIN source.data

\* findImageFormat (lines 52-61): the first listed format the payload has,
\* or the empty string.
RECURSIVE FindImageFormatFrom(_, _)
FindImageFormatFrom(source, i) ==
    IF i > Len(ImageFormats) THEN ""
    ELSE IF HasFormat(source, ImageFormats[i]) THEN ImageFormats[i]
    ELSE FindImageFormatFrom(source, i + 1)

\* Variant: the last listed format the payload has.
RECURSIVE FindLastImageFormatFrom(_, _)
FindLastImageFormatFrom(source, i) ==
    IF i < 1 THEN ""
    ELSE IF HasFormat(source, ImageFormats[i]) THEN ImageFormats[i]
    ELSE FindLastImageFormatFrom(source, i - 1)

FindImageFormatLast(source) == FindLastImageFormatFrom(source, Len(ImageFormats))

FindImageFormat(source) == FindImageFormatFrom(source, 1)

\* The base64 alphabet of QByteArray::toBase64.
Base64Chars ==
    <<"A", "B", "C", "D", "E", "F", "G", "H", "I", "J", "K", "L", "M", "N", "O", "P",
      "Q", "R", "S", "T", "U", "V", "W", "X", "Y", "Z", "a", "b", "c", "d", "e", "f",
      "g", "h", "i", "j", "k", "l", "m", "n", "o", "p", "q", "r", "s", "t", "u", "v",
      "w", "x", "y", "z", "0", "1", "2", "3", "4", "5", "6", "7", "8", "9", "+", "/">>

Base64Char(n) == Base64Chars[n + 1]

\* QByteArray::toBase64 (line 85): three bytes give four characters, the
\* last group is padded with "=".
RECURSIVE ToBase64(_)
ToBase64(bytes) ==
    IF bytes = <<>> THEN <<>>
    ELSE IF Len(bytes) = 1
    THEN <<Base64Char(bytes[1] \div 4), Base64Char((bytes[1] % 4) * 16), "=", "=">>
    ELSE IF Len(bytes) = 2
    THEN <<Base64Char(bytes[1] \div 4),
           Base64Char((bytes[1] % 4) * 16 + bytes[2] \div 16),
           Base64Char((bytes[2] % 16) * 4), "=">>
    ELSE <<Base64Char(bytes[1] \div 4),
           Base64Char((bytes[1] % 4) * 16 + bytes[2] \div 16),
           Base64Char((bytes[2] % 16) * 4 + bytes[3] \div 64),
           Base64Char(bytes[3] % 64)>>
         \o ToBase64(SubSeq(bytes, 4, Len(bytes)))

\* The markup of lines 84-85, as its pieces: <img src="data:MIME;base64,DATA" />.
ImageHtml(mime, imageData) ==
    [tag |-> "img", scheme |-> "data:", mime |-> mime, encoding |-> ";base64,",
     data |-> ToBase64(imageData)]

\* TextEdit::canInsertFromMimeData (lines 73-76).
CanInsertFromMimeData(source) == source.hasImage \/ HasFormat(source, "text/plain")

\* TextEdit::insertFromMimeData (lines 78-89): what reaches the document.
InsertFromMimeData(source) ==
    LET mime == FindImageFormat(source) IN
    IF mime # ""
    THEN [handling |-> "insertHtml", html |-> ImageHtml(mime, source.data[mime])]
    ELSE [handling |-> "QTextEdit::insertFromMimeData", html |-> <<>>]

InitPaste ==
    /\ pasted = [source |-> <<>>, accepted |-> FALSE, handling |-> "none",
                 html |-> <<>>]
    /\ MouseIdle /\ EditorIdle /\ HighlightIdle /\ SizeIdle /\ ChainIdle
    /\ ScriptIdle /\ CurrentIdle /\ AppIdle

\* The user pastes or drops a payload.
Paste ==
    \E source \in MimeDatas :
        LET r == InsertFromMimeData(source) IN
        /\ pasted' = [source |-> source, accepted |-> CanInsertFromMimeData(source),
                      handling |-> r.handling, html |-> r.html]
        /\ UNCHANGED notPasteVars

NextPaste == Paste

SpecPaste == InitPaste /\ [][NextPaste]_vars

\* The formats of the claim, by priority.
C8_Priority == <<"image/svg+xml", "image/png", "image/bmp", "image/jpeg", "image/gif">>

\* C8: a paste embeds an inline base64 data-URI image exactly when the
\* payload offers one of image/svg+xml, image/png, image/bmp, image/jpeg,
\* image/gif, and the image embedded is the first of these, in that order,
\* that the payload offers; with none of them (hasImage() or not) the
\* default paste handling runs.
C8_ImagePastePriority ==
    pasted.handling # "none" =>
        LET offered == {i \in 1..5 : C8_Priority[i] \in DOMAIN pasted.source.data} IN
        IF offered = {}
        THEN pasted.handling = "QTextEdit::insertFromMimeData"
        ELSE /\ pasted.handling = "insertHtml"
             /\ \E i \in offered :
                    /\ \A j \in offered : i <= j
                    /\ pasted.html.tag = "img"
                    /\ pasted.html.mime = C8_Priority[i]
                    /\ pasted.html.data = ToBase64(pasted.source.data[C8_Priority[i]])

\* A payload offering PNG and JPEG has been pasted and the PNG is embedded.
C8_Witness ==
    /\ pasted.handling = "insertHtml"
    /\ {"image/png", "image/jpeg"} \subseteq DOMAIN pasted.source.data
    /\ "image/svg+xml" \notin DOMAIN pasted.source.data
    /\ pasted.html.mime = "image/png"
    /\ pasted.html.data = <<"i", "V", "A", "=">>

(***************************************************************************)
(* ItemWidget::updateSize (lines 173-185) and the constructor's size limit *)
(* (line 107).  A QSize is a record [w, h].                                *)
(***************************************************************************)
Size(w, h) == [w |-> w, h |-> h]

Max(a, b) == IF a > b THEN a ELSE b

Min(a, b) == IF a < b THEN a ELSE b

\* widget->setMaximumSize(2048, 2048) (line 107).
ItemSizeLimit == 2048

\* The widget keeps its size between its minimum and its maximum size; the
\* minimum wins when the two cross.
Bounded(w, size) ==
    Size(Max(Min(size.w, w.maximumSize.w), w.minimumSize.w),
         Max(Min(size.h, w.maximumSize.h), w.minimumSize.h))

\* QWidget::setMaximumSize (line 176): a negative size counts as 0.
SetMaximumSize(w, size) ==
    LET m == Size(Max(size.w, 0), Max(size.h, 0))
        v == [w EXCEPT !.maximumSize = m]
    IN  [v EXCEPT !.size = Bounded(v, w.size)]

\* QWidget::resize (line 180).
Resize(w, size) == [w EXCEPT !.size = Bounded(w, size)]

\* QWidget::setFixedSize (lines 182, 184): minimum and maximum size become
\* the size, and so does the size of the widget.
SetFixedSize(w, size) ==
    LET m == Size(Max(size.w, 0), Max(size.h, 0)) IN
    [minimumSize |-> m, maximumSize |-> m, size |-> m]

\* The branch of lines 179-184: the call made on the widget.
\* Variant: the branch for differing heights is missing.
SizeCallAlwaysIdeal(maximumSize, idealWidth, idealHeight, maximumHeight, sizeHint) ==
    IF idealHeight <= 0 /\ maximumHeight <= 0
    THEN [call |-> "resize", size |-> sizeHint]
    ELSE [call |-> "setFixedSize", size |-> Size(idealWidth, idealHeight)]

SizeCall(maximumSize, idealWidth, idealHeight, maximumHeight, sizeHint) ==
    IF idealHeight <= 0 /\ maximumHeight <= 0
    THEN [call |-> "resize", size |-> sizeHint]
    ELSE IF idealHeight # maximumHeight
    THEN [call |-> "setFixedSize", size |-> Size(maximumSize.w, maximumHeight)]
    ELSE [call |-> "setFixedSize", size |-> Size(idealWidth, idealHeight)]

\* updateSize (lines 173-185): the widget afterwards and the calls made on it.
UpdateSize(w, maximumSize, idealWidth, idealHeight, maximumHeight, sizeHint) ==
    LET limited == SetMaximumSize(w, maximumSize)
        c == SizeCall(maximumSize, idealWidth, idealHeight, maximumHeight, sizeHint)
    IN  [widget |-> IF c.call = "resize" THEN Resize(limited, c.size)
                    ELSE SetFixedSize(limited, c.size),
         calls |-> <<[call |-> "setMaximumSize", size |-> maximumSize], c>>]

\* Widths the list view passes, and heights heightForWidth answers: -1 when
\* the widget has no height for a width, 0 and positive heights.
Widths == 1..MaxDim

Heights == -1..MaxDim

\* Size hints: none (an invalid size), the smallest and the largest size.
SizeHints == {Size(-1, -1), Size(1, 1), Size(MaxDim, MaxDim)}

\* A new ItemWidget (line 107): limited to 2048 x 2048, no minimum size.
InitSize ==
    /\ widget = [minimumSize |-> Size(0, 0),
                 maximumSize |-> Size(ItemSizeLimit, ItemSizeLimit),
                 size |-> Size(0, 0)]
    /\ sizing = [maximumSize |-> Size(0, 0), idealWidth |-> 0, idealHeight |-> 0,
                 maximumHeight |-> 0, sizeHint |-> Size(0, 0), calls |-> <<>>]
    /\ MouseIdle /\ EditorIdle /\ HighlightIdle /\ PasteIdle /\ ChainIdle
    /\ ScriptIdle /\ CurrentIdle /\ AppIdle

\* The list view lays the item out, with widths, heights and a size hint
\* from the given sets.  heightForWidth is a function of the width: for
\* equal widths the two heights are equal.
UpdateSizeWith(widths, heights, sizeHints) ==
    \E maximumSize \in [w : widths, h : widths], idealWidth \in widths,
       idealHeight \in heights, maximumHeight \in heights, sizeHint \in sizeHints :
        /\ idealWidth = maximumSize.w => idealHeight = maximumHeight
        /\ LET r == UpdateSize(widget, maximumSize, idealWidth, idealHeight,
                               maximumHeight, sizeHint)
           IN  /\ widget' = r.widget
               /\ sizing' = [maximumSize |-> maximumSize, idealWidth |-> idealWidth,
                             idealHeight |-> idealHeight,
                             maximumHeight |-> maximumHeight,
                             sizeHint |-> sizeHint, calls |-> r.calls]
        /\ UNCHANGED notSizeVars

UpdateSizeCall == UpdateSizeWith(Widths, Heights, SizeHints)

NextSize == UpdateSizeCall

SpecSize == InitSize /\ [][NextSize]_vars

\* The last updateSize call fixed the widget to the size.
FixedTo(size) ==
    /\ sizing.calls[2] = [call |-> "setFixedSize", size |-> size]
    /\ (size.w >= 0 /\ size.h >= 0) =>
           /\ widget.minimumSize = size
           /\ widget.maximumSize = size
           /\ widget.size = size

\* The last updateSize call resized the widget to its size hint and did not
\* fix it.
ResizedToHint == sizing.calls[2] = [call |-> "resize", size |-> sizing.sizeHint]

\* C9 as claimed: equal and positive heights fix the widget to (idealWidth,
\* idealHeight); heights that differ fix it to (maximumSize.width,
\* maximumHeight); two non-positive heights resize it to its size hint.
C9_SizePolicyAsClaimed ==
    sizing.calls # <<>> =>
        /\ (sizing.idealHeight = sizing.maximumHeight /\ sizing.idealHeight > 0)
               => FixedTo(Size(sizing.idealWidth, sizing.idealHeight))
        /\ sizing.idealHeight # sizing.maximumHeight
               => FixedTo(Size(sizing.maximumSize.w, sizing.maximumHeight))
        /\ (sizing.idealHeight <= 0 /\ sizing.maximumHeight <= 0) => ResizedToHint

\* C9 as amended: equal and positive heights fix the widget to (idealWidth,
\* idealHeight); heights that differ and are not both non-positive fix it to
\* (maximumSize.width, maximumHeight); two non-positive heights, equal or
\* not, resize it to its size hint and do not fix it.
C9_SizePolicy ==
    sizing.calls # <<>> =>
        /\ sizing.calls[1] = [call |-> "setMaximumSize", size |-> sizing.maximumSize]
        /\ (sizing.idealHeight = sizing.maximumHeight /\ sizing.idealHeight > 0)
               => FixedTo(Size(sizing.idealWidth, sizing.idealHeight))
        /\ (/\ sizing.idealHeight # sizing.maximumHeight
            /\ ~(sizing.idealHeight <= 0 /\ sizing.maximumHeight <= 0))
               => FixedTo(Size(sizing.maximumSize.w, sizing.maximumHeight))
        /\ (sizing.idealHeight <= 0 /\ sizing.maximumHeight <= 0) => ResizedToHint

\* Heights that differ with only one of them positive have fixed the widget
\* to the maximum width.
C9_Witness ==
    /\ sizing.calls # <<>>
    /\ sizing.idealHeight = 0
    /\ sizing.maximumHeight = 2
    /\ sizing.idealWidth # sizing.maximumSize.w
    /\ widget.size = Size(sizing.maximumSize.w, 2)

(***************************************************************************)
(* ItemLoaderInterface::transformSaver (lines 352-355).  An ItemSaverPtr   *)
(* is the identity of the saver it shares: 1..MaxSavers, 0 for nullptr.    *)
(***************************************************************************)
NullSaver == 0

SaverPtrs == 0..MaxSavers

\* The items of a tab's model.
TabModels == SeqsUpTo({"x", "y"}, 2)

\* transformSaver (lines 352-355): the saver returned; the model is not used.
\* Variant: no saver is returned, as by loadItems and initializeTab.
TransformSaverNone(saver, model) == [saver |-> NullSaver, model |-> model]

TransformSaver(saver, model) == [saver |-> saver, model |-> model]

InitChain ==
    /\ chain \in {[input |-> saver, saver |-> saver, tab |-> model, model |-> model,
                    loaders |-> 0] : saver \in SaverPtrs, model \in TabModels}
    /\ MouseIdle /\ EditorIdle /\ HighlightIdle /\ PasteIdle /\ SizeIdle
    /\ ScriptIdle /\ CurrentIdle /\ AppIdle

\* The next loader of the chain, one that does not override transformSaver,
\* is handed the saver.
ChainTransformSaver ==
    /\ chain.loaders < MaxLoaders
    /\ LET r == TransformSaver(chain.saver, chain.model) IN
           chain' = [chain EXCEPT !.saver = r.saver, !.model = r.model,
                                  !.loaders = @ + 1]
    /\ UNCHANGED notChainVars

NextChain == ChainTransformSaver

SpecChain == InitChain /\ [][NextChain]_vars

\* C10: the default transformSaver returns the saver it was given and
\* leaves the model alone, so after any number of loaders the saver is the
\* one the chain started with.
C10_TransformSaverIdentity ==
    /\ chain.saver = chain.input
    /\ chain.model = chain.tab

\* A saver has passed two default loaders.
C10_Witness ==
    /\ chain.loaders >= 2
    /\ chain.input # 0
    /\ chain.saver = chain.input

(***************************************************************************)
(* ItemScriptable (lines 273-296): call, eval and currentArguments invoke  *)
(* a slot of m_scriptable through QMetaObject::invokeMethod.               *)
(***************************************************************************)
\* The thread of the widgets and the thread the scripting engine lives in.
Threads == {"GuiThread", "ScriptThread"}

\* The thread m_scriptable, the engine's object, has its affinity to.
EngineThread == "ScriptThread"

\* The connection type handed to invokeMethod (lines 277, 293).
\* Variant: the invocation is queued to the object's thread and waited for.
ConnectionTypeBlockingQueued == "BlockingQueuedConnection"

ConnectionType == "DirectConnection"

\* QMetaObject::invokeMethod: a direct connection runs the slot at once in
\* the calling thread; a blocking queued connection posts it to the thread
\* of the object and waits there for it to finish.
ExecutingThread(connection, callerThread, objectThread) ==
    IF connection = "DirectConnection" THEN callerThread ELSE objectThread

\* The methods call() can name.
ScriptMethods == {"eval", "copy"}

ScriptArguments == {<<>>, <<"x">>}

\* What the engine's slot can return; QVariant() is the invalid variant.
ScriptValues == {"Invalid", "a", "b"}

DefaultResult == "Invalid"

\* invokeMethod fails when the object is null or has no such slot.
Scriptables == {"Scriptable", "nullptr"}

Dispatches(scriptable) == scriptable = "Scriptable"

NoCall ==
    [pc |-> "idle", slot |-> "none", method |-> "none", arguments |-> <<>>,
     callerThread |-> "none", runsIn |-> "none",
     overlapped |-> FALSE, returns |-> DefaultResult, result |-> DefaultResult]

InitScript ==
    /\ bridge \in [scriptable : Scriptables, engineBusy : {FALSE}, call : {NoCall}]
    /\ MouseIdle /\ EditorIdle /\ HighlightIdle /\ PasteIdle /\ SizeIdle /\ ChainIdle
    /\ CurrentIdle /\ AppIdle

\* invokeMethod from thread t: the slot starts to run (or the dispatch
\* fails and the call is over with the default-constructed result).
Invoke(slot, method, arguments, t) ==
    /\ bridge.call.pc \in {"idle", "returned"}
    /\ bridge' =
         [bridge EXCEPT !.call =
            IF Dispatches(bridge.scriptable)
            THEN [NoCall EXCEPT !.pc = "executing", !.slot = slot, !.method = method,
                                !.arguments = arguments, !.callerThread = t,
                                !.runsIn = ExecutingThread(ConnectionType, t, EngineThread),
                                !.overlapped =
                                    /\ bridge.engineBusy
                                    /\ ExecutingThread(ConnectionType, t, EngineThread)
                                           # EngineThread]
            ELSE [NoCall EXCEPT !.pc = "returned", !.slot = slot, !.method = method,
                                !.arguments = arguments, !.callerThread = t]]
    /\ UNCHANGED notScriptVars

\* ItemScriptable::call (lines 273-282).
ScriptCall ==
    \E method \in ScriptMethods \ {"eval"}, arguments \in ScriptArguments, t \in Threads :
        Invoke("call", method, arguments, t)

\* ItemScriptable::eval (lines 284-287): call("eval", [script]).
ScriptEval ==
    \E t \in Threads : Invoke("call", "eval", <<"x">>, t)

\* ItemScriptable::currentArguments (lines 289-296).
ScriptCurrentArguments ==
    \E t \in Threads : Invoke("currentArguments", "none", <<>>, t)

\* The slot finishes with a value and invokeMethod returns to the caller.
ScriptReturn ==
    /\ bridge.call.pc = "executing"
    /\ \E v \in ScriptValues :
           bridge' = [bridge EXCEPT !.call.pc = "returned", !.call.returns = v,
                                    !.call.result = v]
    /\ UNCHANGED notScriptVars

\* The engine's thread takes up other work of the scripting context; it
\* cannot while it runs the slot itself.
EngineWorkBegin ==
    /\ ~bridge.engineBusy
    /\ ~(bridge.call.pc = "executing" /\ bridge.call.runsIn = EngineThread)
    /\ bridge' = [bridge EXCEPT !.engineBusy = TRUE,
                                !.call.overlapped = @ \/ bridge.call.pc = "executing"]
    /\ UNCHANGED notScriptVars

EngineWorkEnd ==
    /\ bridge.engineBusy
    /\ ~(bridge.call.pc = "executing" /\ bridge.call.runsIn = EngineThread)
    /\ bridge' = [bridge EXCEPT !.engineBusy = FALSE]
    /\ UNCHANGED notScriptVars

NextScript ==
    \/ ScriptCall \/ ScriptEval \/ ScriptCurrentArguments \/ ScriptReturn
    \/ EngineWorkBegin \/ EngineWorkEnd

SpecScript == InitScript /\ [][NextScript]_vars

\* C12 as claimed: a call through the bridge runs the slot in the scripting engine's
\* own thread, never while that context does other work, and the caller
\* gets the slot's result when it is over, or the default-constructed
\* result when the dispatch failed.
C12_CrossContextDispatch ==
    /\ bridge.call.pc = "executing"
           => /\ bridge.call.runsIn = EngineThread
              /\ ~bridge.call.overlapped
    /\ bridge.call.pc = "returned"
           => /\ ~bridge.call.overlapped
              /\ bridge.call.result =
                     IF Dispatches(bridge.scriptable) THEN bridge.call.returns
                     ELSE DefaultResult

\* C12 as amended: a call through the bridge runs the slot by direct
\* invocation in the thread of the caller, which is the engine's thread only
\* when the caller is in it; the slot overlaps other work of the engine's
\* thread only when called from another thread; and the caller gets the
\* slot's result when it is over, or the default-constructed result when
\* the dispatch failed.
C12_DirectDispatch ==
    /\ bridge.call.pc = "executing"
           => /\ bridge.call.runsIn = bridge.call.callerThread
              /\ (bridge.call.runsIn = EngineThread
                      <=> bridge.call.callerThread = EngineThread)
    /\ bridge.call.overlapped => bridge.call.callerThread # EngineThread
    /\ bridge.call.pc = "returned"
           => bridge.call.result =
                  IF Dispatches(bridge.scriptable) THEN bridge.call.returns
                  ELSE DefaultResult

\* A call from the widgets' thread has run there, overlapping work of the
\* engine's thread, and has returned the slot's value.
C12_Witness ==
    /\ bridge.call.pc = "returned"
    /\ bridge.call.slot = "call"
    /\ bridge.call.callerThread = "GuiThread"
    /\ bridge.call.runsIn = "GuiThread"
    /\ bridge.call.overlapped
    /\ bridge.call.result = "a"

(***************************************************************************)
(* ItemWidget::setCurrent (lines 187-191) next to the other operations of  *)
(* an ItemWidget.  The other operations work on state of their own, so a   *)
(* run exercises setCurrent together with the operations of one of them;   *)
(* `current.with` names it.                                                *)
(***************************************************************************)
TransparentForMouseEvents == "WA_TransparentForMouseEvents"

\* QWidget::setAttribute(attribute, on).
SetAttribute(attrs, attribute, on) ==
    IF on THEN attrs \cup {attribute} ELSE attrs \ {attribute}

\* setCurrent (lines 187-191).
\* Variant: the attribute follows `current` instead of its negation.
SetCurrentTransparentWhenCurrent(attrs, c) ==
    SetAttribute(attrs, TransparentForMouseEvents, c)

SetCurrent(attrs, c) == SetAttribute(attrs, TransparentForMouseEvents, ~c)

\* The operations of an ItemWidget exercised next to setCurrent.
WidgetOperations == {"filterMouseEvents", "setEditorData", "setHighlight", "updateSize"}

\* The widget as it is handed to the constructor (lines 94-111), which
\* sets no attribute: the attribute is as the creator of the widget left it.
InitCurrent ==
    /\ attributes \in SUBSET {TransparentForMouseEvents}
    /\ current \in [called : {FALSE}, arg : {FALSE}, with : WidgetOperations]
    /\ IF current.with = "filterMouseEvents"
       THEN /\ edit = [flags |-> {}, mouseTracking |-> FALSE, cursor |-> "ArrowCursor",
                       textCursor |-> CursorForPosition(0),
                       anchors |-> [p \in Positions |-> IF p = 0 THEN "http://a" ELSE NoAnchor]]
            /\ gate = [event |-> NoEvent, ret |-> FALSE, opened |-> <<>>,
                       copied |-> <<>>, caretSet |-> FALSE, hadSelection |-> FALSE]
       ELSE MouseIdle
    /\ IF current.with = "setEditorData"
       THEN /\ item = (MimeText :> <<97>>)
            /\ editor \in {[CreateEditor EXCEPT !.kind = k] : k \in EditorKinds}
            /\ session = NoSession
       ELSE EditorIdle
    /\ IF current.with = "setHighlight"
       THEN m_re = DefaultRegExp /\ highlights = <<>>
       ELSE HighlightIdle
    /\ IF current.with = "updateSize"
       THEN /\ widget = [minimumSize |-> Size(0, 0),
                         maximumSize |-> Size(ItemSizeLimit, ItemSizeLimit),
                         size |-> Size(0, 0)]
            /\ sizing = [maximumSize |-> Size(0, 0), idealWidth |-> 0, idealHeight |-> 0,
                         maximumHeight |-> 0, sizeHint |-> Size(0, 0), calls |-> <<>>]
       ELSE SizeIdle
    /\ PasteIdle /\ ChainIdle /\ ScriptIdle /\ AppIdle

\* The list view tells the item whether it is the current one.
SetCurrentCall ==
    \E c \in BOOLEAN :
        /\ attributes' = SetCurrent(attributes, c)
        /\ current' = [current EXCEPT !.called = TRUE, !.arg = c]
        /\ UNCHANGED notCurrentVars

\* The inputs of the other operations: events at the start of the text,
\* the two smallest widths, no height, the two smallest heights, no size
\* hint and the smallest one.
CurrentEvents == {e \in Events : e.pos = 0}

CurrentFilterMouseEvents ==
    current.with = "filterMouseEvents" /\ MouseEventOf(CurrentEvents)

CurrentSetEditorData == current.with = "setEditorData" /\ EditorLoad

CurrentSetModelData == current.with = "setEditorData" /\ EditorCommit

CurrentSetHighlight == current.with = "setHighlight" /\ HighlightCall

CurrentUpdateSize ==
    /\ current.with = "updateSize"
    /\ UpdateSizeWith(1..2, {-1, 1, 2}, {Size(-1, -1), Size(1, 1)})

NextCurrent ==
    \/ SetCurrentCall
    \/ CurrentFilterMouseEvents
    \/ CurrentSetEditorData
    \/ CurrentSetModelData
    \/ CurrentSetHighlight
    \/ CurrentUpdateSize

SpecCurrent == InitCurrent /\ [][NextCurrent]_vars

\* setCurrent has been called and the attribute is the negation of the
\* argument of the latest call.
TransparentUnlessCurrent ==
    current.called
        => (TransparentForMouseEvents \in attributes <=> ~current.arg)

\* C13: once setCurrent has been called, the widget is transparent for
\* mouse events exactly when the argument of the latest call was false, and
\* a step of any other operation of the item leaves the attribute as it is.
C13_SetCurrentGating ==
    /\ []TransparentUnlessCurrent
    /\ [][current' = current => attributes' = attributes]_vars

\* The item was made current and then not current again, and its surface
\* has filtered a mouse event since.
C13_Witness ==
    /\ current.called
    /\ ~current.arg
    /\ TransparentForMouseEvents \in attributes
    /\ current.with = "filterMouseEvents"
    /\ gate.event # NoEvent

(***************************************************************************)
(* App (src/app/app.cpp): exec, exit and wasClosed (lines 122-145) on the  *)
(* object the constructor makes (lines 61-64).                             *)
(***************************************************************************)
\* Exit codes are -1..MaxExitCode.
MaxExitCode == 3

ExitCodes == -1..MaxExitCode

\* App::wasClosed (lines 142-145).
WasClosed(a) == a.m_closed

\* App::exit (lines 132-140); `exits` are the codes handed to
\* QCoreApplication::exit, which makes a running event loop return.
\* Variant: the latch is not tested.
AppExitUnlatched(a, exitCode) ==
    [a EXCEPT !.exits = Append(@, exitCode), !.m_exitCode = exitCode,
              !.m_closed = TRUE]

AppExit(a, exitCode) ==
    IF WasClosed(a)
    THEN a
    ELSE [a EXCEPT !.exits = Append(@, exitCode), !.m_exitCode = exitCode,
                   !.m_closed = TRUE]

\* App::exec (lines 122-130): after the close the pending events are
\* processed and m_exitCode is returned; before it the event loop of the
\* QCoreApplication is entered.
AppExec(a) ==
    IF WasClosed(a)
    THEN [a EXCEPT !.last = [call |-> "exec", closedBefore |-> TRUE,
                             entersLoop |-> FALSE, returned |-> TRUE,
                             returns |-> a.m_exitCode, closed |-> WasClosed(a)]]
    ELSE [a EXCEPT !.inLoop = TRUE,
                   !.last = [call |-> "exec", closedBefore |-> FALSE,
                             entersLoop |-> TRUE, returned |-> FALSE,
                             returns |-> 0, closed |-> WasClosed(a)]]

\* The constructor (lines 61-64).  `last` is the last exec or exit call:
\* whether the app was closed before it, for exec whether it entered the
\* event loop and what it returned, and what wasClosed() is afterwards.
InitApp ==
    /\ app = [m_closed |-> FALSE, m_exitCode |-> 0, exits |-> <<>>, inLoop |-> FALSE,
              last |-> [call |-> "none", closedBefore |-> FALSE, entersLoop |-> FALSE,
                        returned |-> FALSE, returns |-> 0, closed |-> FALSE]]
    /\ MouseIdle /\ EditorIdle /\ HighlightIdle /\ PasteIdle /\ SizeIdle /\ ChainIdle
    /\ ScriptIdle /\ CurrentIdle

\* Somebody calls App::exit, from inside the event loop or outside it.
AppExitCall ==
    /\ \E exitCode \in ExitCodes :
           app' = [AppExit(app, exitCode) EXCEPT
                     !.last = [call |-> "exit", closedBefore |-> WasClosed(app),
                               entersLoop |-> FALSE, returned |-> TRUE,
                               returns |-> exitCode, closed |-> TRUE]]
    /\ UNCHANGED notAppVars

\* Somebody asks wasClosed(); `closed` is the answer.
AppWasClosedCall ==
    /\ app' = [app EXCEPT !.last.call = "wasClosed", !.last.closed = WasClosed(app)]
    /\ UNCHANGED notAppVars

\* main calls App::exec; no event loop is running yet.
AppExecCall ==
    /\ ~app.inLoop
    /\ app' = AppExec(app)
    /\ UNCHANGED notAppVars

\* QCoreApplication::exec returns once QCoreApplication::exit was called
\* from inside the loop, with the code of that call.
AppLoopReturn ==
    /\ app.inLoop
    /\ app.exits # <<>>
    /\ app' = [app EXCEPT !.inLoop = FALSE, !.last.returned = TRUE,
                          !.last.call = "exec",
                          !.last.closedBefore = FALSE,
                          !.last.entersLoop = TRUE,
                          !.last.returns = app.exits[Len(app.exits)],
                          !.last.closed = WasClosed(app)]
    /\ UNCHANGED notAppVars

NextApp == AppExitCall \/ AppExecCall \/ AppLoopReturn \/ AppWasClosedCall

SpecApp == InitApp /\ [][NextApp]_vars

\* C19: wasClosed() never goes back from true to false; only the first
\* exit(c) hands a code to QCoreApplication::exit and records it, later
\* exit calls change nothing of the latch; and exec() on a closed app
\* returns the first exit code without entering the event loop.
C19_ExitLatch ==
    /\ [][WasClosed(app) => WasClosed(app')]_vars
    /\ [][app.last.closed => app'.last.closed]_vars
    /\ [](Len(app.exits) <= 1)
    /\ [](WasClosed(app) <=> app.exits # <<>>)
    /\ [](WasClosed(app) => app.m_exitCode = app.exits[1])
    /\ [][WasClosed(app)
             => /\ app'.m_exitCode = app.m_exitCode
                /\ app'.exits = app.exits]_vars
    /\ []((app.last.call = "exec" /\ app.last.closedBefore)
             => /\ ~app.last.entersLoop
                /\ app.last.returned
                /\ app.last.returns = app.exits[1])

\* exec() has been called on an app that exit(1) had closed, and has
\* returned 1 without entering the event loop.
C19_Witness ==
    /\ app.last.call = "exec"
    /\ app.last.closedBefore
    /\ ~app.last.entersLoop
    /\ app.last.returns = 1
    /\ app.exits = <<1>>
    /\ ~app.inLoop

====
